---- MODULE Spec2Model ----
(***************************************************************************)
(* Qikao Grill M-Pesa server (src/server/server.js): the in-memory ORDERS  *)
(* map and the three handlers that touch it, /api/mpesa/stkpush (async,    *)
(* suspends at two awaits), /api/mpesa/callback and /api/mpesa/status      *)
(* (both synchronous, hence one atomic step each on Node's event loop).    *)
(*                                                                         *)
(* The Express/Mongoose server (src/server/(nodejs,express)server.js): its *)
(* token cache and its /api/mpesa/stkpush handler, suspended at each of    *)
(* its awaits. MongoDB is outside the model: Order.create and order.save   *)
(* either succeed or throw.                                                *)
(*                                                                         *)
(* The payment page script (src/server/server.js, lines 151-230): the      *)
(* interval timer of pollForPayment and the page elements it writes.       *)
(*                                                                         *)
(* The menu page script (src/unnamed/part_000): the cart kept in           *)
(* localStorage, setQuantity and changeQuantity, and the navbar count,     *)
(* card badges and sidebar that refreshUI writes.                          *)
(***************************************************************************)
EXTENDS Integers, Sequences, FiniteSets, TLC

VARIABLES ORDERS, env, pc, gw, issued, last,
          \* (nodejs,express)server.js: the token cache, Date.now(), and the
          \* locals of the suspended stkpush handler
          cachedToken, tokenExpiry, now, locals,
          \* the page: pollForPayment's counter and timer, #mpesa-status,
          \* #mpesa-pay's disabled flag, and the id the poller was started with
          attempts, interval, statusHtml, payDisabled, checkoutRequestID,
          \* the page: the number of click handlers suspended at their fetch
          \* and the number of interval timers that are running; attempts,
          \* interval and checkoutRequestID are those of the poller started last
          fetches, timers,
          \* the menu page (src/unnamed/part_000): localStorage's qikao_cart,
          \* #nav-count, the badge of each menu card, the sidebar's open class,
          \* collapseState and the content of #cart-items
          storage, navCount, badges, sidebarOpen, collapseState, cartItemsWrap

expressVars == <<cachedToken, tokenExpiry, now, locals>>
clientVars == <<attempts, interval, statusHtml, payDisabled, checkoutRequestID,
                fetches, timers>>
cartVars == <<storage, navCount, badges, sidebarOpen, collapseState, cartItemsWrap>>
vars == <<ORDERS, env, pc, gw, issued, last, expressVars, clientVars, cartVars>>

----------------------------------------------------------------------------
(* Input domains *)

\* Longest CallbackMetadata.Item list of a callback delivered between the steps
\* of an initiation (Spec), and of a single delivery (SpecDelivery).
MaxItemsAsync == 0
MaxItems == 2

\* CheckoutRequestID values; "" is the falsy (missing or empty) id.
Ids == {"ws_1", "ws_2"}
NoId == ""
\* 0 success, 1 insufficient funds, 1032 cancelled by the user
ResultCodes == {0, 1, 1032}
\* The description the vendor sends with a result code.
DescOf(rc) ==
  IF rc = 0 THEN "processed" ELSE IF rc = 1 THEN "insufficient" ELSE "cancelled"

\* One element of CallbackMetadata.Item: a JSON null, or an object whose Name
\* may be falsy ("") and whose Value may be absent (M-Pesa's Balance item).
NullItem == [kind |-> "null", Name |-> "", hasValue |-> FALSE, Value |-> ""]
Obj(n, v) == [kind |-> "obj", Name |-> n, hasValue |-> TRUE, Value |-> v]
Items ==
  { NullItem,
    Obj("Amount", "150"), Obj("Amount", "200"),
    Obj("MpesaReceiptNumber", "QAX123"),
    Obj("", "150"),
    [kind |-> "obj", Name |-> "Balance", hasValue |-> FALSE, Value |-> ""] }

RECURSIVE SeqsUpTo(_, _)
SeqsUpTo(S, n) ==
  IF n = 0 THEN {<<>>}
  ELSE LET shorter == SeqsUpTo(S, n - 1)
       IN shorter \cup {Append(s, x) : s \in {t \in shorter : Len(t) = n - 1}, x \in S}

\* What line 100 finds: the stkCallback object, or null.
NoStk ==
  [kind |-> "null", CheckoutRequestID |-> NoId, ResultCode |-> 0,
   ResultDesc |-> "", hasItems |-> FALSE, Item |-> <<>>]
\* hasItems: CallbackMetadata.Item is an array. A failure callback carries no
\* CallbackMetadata (lines 117-118 never read it).
StksUpTo(n) ==
  { [kind |-> "stk", CheckoutRequestID |-> c, ResultCode |-> 0,
     ResultDesc |-> DescOf(0), hasItems |-> TRUE, Item |-> it] :
      c \in Ids \cup {NoId}, it \in SeqsUpTo(Items, n) }
  \cup
  { [kind |-> "stk", CheckoutRequestID |-> c, ResultCode |-> rc,
     ResultDesc |-> DescOf(rc), hasItems |-> FALSE, Item |-> <<>>] :
      c \in Ids \cup {NoId}, rc \in ResultCodes }

\* A callback body: no envelope, Body.stkCallback, or a top-level stkCallback.
BodiesUpTo(n) ==
  { [envelope |-> "none", stk |-> NoStk] }
  \cup { [envelope |-> e, stk |-> s] : e \in {"Body", "top"}, s \in StksUpTo(n) }

\* A phone is the sequence of the characters of req.body.phone; <<>> is the
\* falsy (missing or empty) phone.
NoPhone == <<>>
LocalPhone == <<"0", "7", "1", "2", "3", "4", "5", "6", "7", "8">>
ShortPhone == <<"1", "2", "3">>
Phones == {NoPhone, LocalPhone, ShortPhone}
\* req.body.amount; 0 is the falsy (missing or zero) amount.
Amounts == {0, 150, -5}

Digits == {"0", "1", "2", "3", "4", "5", "6", "7", "8", "9"}
AllDigits(s) == \A k \in 1..Len(s) : s[k] \in Digits
\* /^0\d{8,9}$/
MatchesLocal(s) ==
  Len(s) \in {9, 10} /\ s[1] = "0" /\ AllDigits(s)
\* /^254\d{9}$/
MatchesInternational(s) ==
  Len(s) = 12 /\ SubSeq(s, 1, 3) = <<"2", "5", "4">> /\ AllDigits(s)
\* /^\+254\d{9}$/
MatchesPlusInternational(s) ==
  Len(s) = 13 /\ s[1] = "+" /\ MatchesInternational(Tail(s))
\* The page's test of the phone before it posts it.
KenyanPhone(s) ==
  MatchesLocal(s) \/ MatchesInternational(s) \/ MatchesPlusInternational(s)

----------------------------------------------------------------------------
(* Values *)

None == [kind |-> "none"]
\* localStorage.getItem of a key that was never set
NoItem == [kind |-> "null"]
\* The ids of the menu cards (CARD_NODES).
MenuIds == {"burger", "fries"}
\* cachedToken = null
NoToken == 0
Terminal == {"SUCCESS", "FAILED"}

\* detail[k] = v, as a JS property assignment
Put(d, k, v) == [x \in DOMAIN d \cup {k} |-> IF x = k THEN v ELSE d[x]]
\* Object.assign(target, source)
ObjectAssign(target, source) ==
  [x \in DOMAIN target \cup DOMAIN source |->
     IF x \in DOMAIN source THEN source[x] ELSE target[x]]
EmptyObj == [x \in {} |-> ""]

\* Mutant of MapSet: the map is replaced by one that holds the new entry only.
MapSetReplacing(m, k, v) == [x \in {k} |-> v]

\* ORDERS.set(key, value)
MapSet(m, k, v) == [x \in DOMAIN m \cup {k} |-> IF x = k THEN v ELSE m[x]]

\* The gateway's processrequest response body for an accepted push.
ResponseData(id) ==
  IF id = NoId THEN [ResponseCode |-> "0"]
  ELSE [CheckoutRequestID |-> id, ResponseCode |-> "0"]

----------------------------------------------------------------------------
(* /api/mpesa/callback *)

\* line 100
FindStk(body) == IF body.envelope = "none" THEN NoStk ELSE body.stk

\* Mutant of ForEachItem: a name that is already in detail keeps its first value.
RECURSIVE ForEachItemKeepFirst(_, _)
ForEachItemKeepFirst(items, detail) ==
  IF items = <<>> THEN [thrown |-> FALSE, detail |-> detail]
  ELSE LET i == Head(items) IN
       IF i.kind = "null" THEN [thrown |-> TRUE, detail |-> detail]
       ELSE ForEachItemKeepFirst(Tail(items),
                        IF i.Name # "" /\ i.hasValue /\ i.Name \notin DOMAIN detail
                        THEN Put(detail, i.Name, i.Value) ELSE detail)

\* lines 112-114: forEach over Item; reading i.Name of a null item throws
RECURSIVE ForEachItem(_, _)
ForEachItem(items, detail) ==
  IF items = <<>> THEN [thrown |-> FALSE, detail |-> detail]
  ELSE LET i == Head(items) IN
       IF i.kind = "null" THEN [thrown |-> TRUE, detail |-> detail]
       ELSE ForEachItem(Tail(items),
                        IF i.Name # "" /\ i.hasValue
                        THEN Put(detail, i.Name, i.Value) ELSE detail)

Ack == [code |-> 200, ResultCode |-> 0, ResultDesc |-> "Received"]
CallbackError == [code |-> 500, error |-> "callback processing error"]

\* lines 116 and 118: the record the handler stores
SuccessRecord(stk, detail) ==
  [status |-> "SUCCESS",
   detail |-> ObjectAssign([ResultDesc |-> stk.ResultDesc], detail)]
FailedRecord(stk) ==
  [status |-> "FAILED",
   detail |-> [ResultCode |-> stk.ResultCode, ResultDesc |-> stk.ResultDesc]]

\* line 108: resultCode === 0
IsSuccessCode(rc) == rc = 0

\* Mutant of CallbackWrite: an id with no record is first created PENDING.
CallbackWriteCreatesPending(orders, stk, detail) ==
  IF stk.CheckoutRequestID \notin DOMAIN orders
  THEN MapSet(orders, stk.CheckoutRequestID, [status |-> "PENDING", detail |-> EmptyObj])
  ELSE IF IsSuccessCode(stk.ResultCode)
  THEN MapSet(orders, stk.CheckoutRequestID, SuccessRecord(stk, detail))
  ELSE MapSet(orders, stk.CheckoutRequestID, FailedRecord(stk))

\* Mutant of CallbackWrite: a stored record gets the new status and keeps its
\* detail.
CallbackWriteStatusOnly(orders, stk, detail) ==
  LET c == stk.CheckoutRequestID
      rec == IF IsSuccessCode(stk.ResultCode)
             THEN SuccessRecord(stk, detail) ELSE FailedRecord(stk)
  IN IF c \in DOMAIN orders
     THEN MapSet(orders, c, [status |-> rec.status, detail |-> orders[c].detail])
     ELSE MapSet(orders, c, rec)

\* lines 102-119: the store after the transition
CallbackWrite(orders, stk, detail) ==
  IF IsSuccessCode(stk.ResultCode)
  THEN MapSet(orders, stk.CheckoutRequestID, SuccessRecord(stk, detail))
  ELSE MapSet(orders, stk.CheckoutRequestID, FailedRecord(stk))

\* Mutant of CallbackHandler: the envelope is used without testing its id.
CallbackHandlerNoIdTest(orders, body) ==
  LET stk == FindStk(body) IN
  IF stk.kind = "stk"
  THEN LET fe == IF IsSuccessCode(stk.ResultCode) /\ stk.hasItems
                 THEN ForEachItem(stk.Item, EmptyObj)
                 ELSE [thrown |-> FALSE, detail |-> EmptyObj]
       IN IF fe.thrown
          THEN [orders |-> orders, res |-> CallbackError]
          ELSE [orders |-> CallbackWrite(orders, stk, fe.detail), res |-> Ack]
  ELSE [orders |-> orders, res |-> Ack]

\* lines 95-131: the whole handler, as the store and the response it leaves
CallbackHandler(orders, body) ==
  LET stk == FindStk(body) IN
  IF stk.kind = "stk" /\ stk.CheckoutRequestID # NoId
  THEN LET fe == IF IsSuccessCode(stk.ResultCode) /\ stk.hasItems
                 THEN ForEachItem(stk.Item, EmptyObj)
                 ELSE [thrown |-> FALSE, detail |-> EmptyObj]
       IN IF fe.thrown
          THEN [orders |-> orders, res |-> CallbackError]
          ELSE [orders |-> CallbackWrite(orders, stk, fe.detail), res |-> Ack]
  ELSE [orders |-> orders, res |-> Ack]

Callback(body) ==
  LET r == CallbackHandler(ORDERS, body) IN
  /\ ORDERS' = r.orders
  /\ last' = [op |-> "callback", req |-> FindStk(body), res |-> r.res]
  /\ UNCHANGED <<env, pc, gw, issued>>
  /\ UNCHANGED <<expressVars, clientVars, cartVars>>

----------------------------------------------------------------------------
(* /api/mpesa/status *)

\* Mutant of StatusHandler: an id with no record is answered 404.
StatusHandlerNotFound(orders, checkoutId) ==
  IF checkoutId = NoId
  THEN [code |-> 400, error |-> "checkoutId required"]
  ELSE IF checkoutId \notin DOMAIN orders
       THEN [code |-> 404, error |-> "unknown checkoutId"]
       ELSE [code |-> 200, status |-> orders[checkoutId].status,
             hasDetail |-> TRUE, detail |-> orders[checkoutId].detail]

\* lines 134-144
StatusHandler(orders, checkoutId) ==
  IF checkoutId = NoId
  THEN [code |-> 400, error |-> "checkoutId required"]
  ELSE IF checkoutId \notin DOMAIN orders
       THEN [code |-> 200, status |-> "PENDING", hasDetail |-> FALSE,
             detail |-> EmptyObj]
       ELSE [code |-> 200, status |-> orders[checkoutId].status,
             hasDetail |-> TRUE, detail |-> orders[checkoutId].detail]

\* Mutant of Status: a query for an id with no record stores a PENDING record.
StatusCreatesPending(checkoutId) ==
  /\ last' = [op |-> "status", req |-> [checkoutId |-> checkoutId],
              res |-> StatusHandler(ORDERS, checkoutId)]
  /\ ORDERS' = IF checkoutId # NoId /\ checkoutId \notin DOMAIN ORDERS
               THEN MapSet(ORDERS, checkoutId, [status |-> "PENDING", detail |-> EmptyObj])
               ELSE ORDERS
  /\ UNCHANGED <<env, pc, gw, issued>>
  /\ UNCHANGED <<expressVars, clientVars, cartVars>>

Status(checkoutId) ==
  /\ last' = [op |-> "status", req |-> [checkoutId |-> checkoutId],
              res |-> StatusHandler(ORDERS, checkoutId)]
  /\ UNCHANGED <<ORDERS, env, pc, gw, issued>>
  /\ UNCHANGED <<expressVars, clientVars, cartVars>>

----------------------------------------------------------------------------
(* /api/mpesa/stkpush *)

BadRequest == [code |-> 400, error |-> "phone and amount required"]
ConfigError ==
  [code |-> 500, error |-> "MPESA_SHORTCODE/MPESA_PASSKEY/MPESA_CALLBACK_URL not set"]
\* lines 36-38: the message of the Error getAccessToken throws
MissingKeys == "Missing MPESA_CONSUMER_KEY/MPESA_CONSUMER_SECRET"
\* err.response.data (or err.message) of a request the gateway has failed
GatewayError == "gateway error"
\* lines 88-91: detail is err.response ? err.response.data : err.message
PushFailed(detail) == [code |-> 500, error |-> "STK push failed", detail |-> detail]
PushOk(data) == [code |-> 200, success |-> TRUE, data |-> data]

\* Mutant of PendingRecord: the PENDING record is saved without a detail.
PendingRecordNoDetail(responseData) == [status |-> "PENDING", detail |-> EmptyObj]

\* lines 81-85: the PENDING record saved when the response carries an id
PendingRecord(responseData) == [status |-> "PENDING", detail |-> responseData]
StkWrite(orders, checkoutId) ==
  IF checkoutId # NoId
  THEN MapSet(orders, checkoutId, PendingRecord(ResponseData(checkoutId)))
  ELSE orders

\* lines 48-59: validation, configuration, and getAccessToken up to its await
StkReceive(phone, amount) ==
  /\ pc = "idle"
  /\ LET req == [phone |-> phone, amount |-> amount] IN
     IF phone = NoPhone \/ amount = 0
     THEN /\ last' = [op |-> "stkpush", req |-> req, res |-> BadRequest]
          /\ pc' = pc
     ELSE IF ~env.short
     THEN /\ last' = [op |-> "stkpush", req |-> req, res |-> ConfigError]
          /\ pc' = pc
     ELSE IF ~env.keys
     THEN /\ last' = [op |-> "stkpush", req |-> req, res |-> PushFailed(MissingKeys)]
          /\ pc' = pc
     ELSE /\ last' = [op |-> "stk_await_token", req |-> req, res |-> None]
          /\ pc' = "token"
  /\ UNCHANGED <<ORDERS, env, gw, issued>>
  /\ UNCHANGED <<expressVars, clientVars, cartVars>>

\* lines 41-43, 59-78: the token request settles; on success the push is sent
StkTokenReply(ok) ==
  /\ pc = "token"
  /\ IF ok
     THEN /\ pc' = "post"
          /\ last' = [op |-> "stk_await_post", req |-> None, res |-> None]
     ELSE /\ pc' = "idle"
          /\ last' = [op |-> "stkpush", req |-> None, res |-> PushFailed(GatewayError)]
  /\ UNCHANGED <<ORDERS, env, gw, issued>>
  /\ UNCHANGED <<expressVars, clientVars, cartVars>>

\* The gateway settles the push: a rejection, a body without an id, or a body
\* with a CheckoutRequestID it has not assigned before.
GatewayReply(r) ==
  /\ pc = "post"
  /\ r \in {"error", "noid"} \cup (Ids \ issued)
  /\ gw' = r
  /\ issued' = IF r \in Ids THEN issued \cup {r} ELSE issued
  /\ pc' = "replied"
  /\ last' = [op |-> "gateway", req |-> None, res |-> None]
  /\ UNCHANGED <<ORDERS, env>>
  /\ UNCHANGED <<expressVars, clientVars, cartVars>>

\* Mutant of StkResume: a rejected push is saved as a FAILED record.
StkResumeSavesFailure ==
  /\ pc = "replied"
  /\ pc' = "idle"
  /\ gw' = "none"
  /\ IF gw = "error"
     THEN /\ ORDERS' = MapSet(ORDERS, "rejected",
                              [status |-> "FAILED", detail |-> [ResultDesc |-> GatewayError]])
          /\ last' = [op |-> "stkpush", req |-> None, res |-> PushFailed(GatewayError)]
     ELSE LET checkoutId == IF gw = "noid" THEN NoId ELSE gw IN
          /\ ORDERS' = StkWrite(ORDERS, checkoutId)
          /\ last' = [op |-> "stkpush", req |-> None,
                      res |-> PushOk(ResponseData(checkoutId))]
  /\ UNCHANGED <<env, issued>>
  /\ UNCHANGED <<expressVars, clientVars, cartVars>>

\* lines 78-91: the handler resumes after the push request
StkResume ==
  /\ pc = "replied"
  /\ pc' = "idle"
  /\ gw' = "none"
  /\ IF gw = "error"
     THEN /\ ORDERS' = ORDERS
          /\ last' = [op |-> "stkpush", req |-> None, res |-> PushFailed(GatewayError)]
     ELSE LET checkoutId == IF gw = "noid" THEN NoId ELSE gw IN
          /\ ORDERS' = StkWrite(ORDERS, checkoutId)
          /\ last' = [op |-> "stkpush", req |-> None,
                      res |-> PushOk(ResponseData(checkoutId))]
  /\ UNCHANGED <<env, issued>>
  /\ UNCHANGED <<expressVars, clientVars, cartVars>>

----------------------------------------------------------------------------
(* (nodejs,express)server.js: getAccessToken and /api/mpesa/stkpush *)

\* Date.now() advances by ClockStep ms up to MaxNow; the gateway issues at most
\* MaxTokens tokens.
ClockStep == 1000
MaxNow == 12000
MaxTokens == 3

\* line 41: the cache is not used within this many ms of tokenExpiry
ExpiryMargin == 5000
\* line 53: res.data.expires_in || 3600
DefaultExpiresIn == 3600
\* res.data.expires_in in seconds; 0 is a missing value
ExpiresIn == {0, 8}

\* Mutant of CacheFresh: the cached token is used until tokenExpiry itself.
CacheFreshNoMargin(token, expiry, t) == token # NoToken /\ t < expiry

\* line 41: cachedToken && now < tokenExpiry - 5000
CacheFresh(token, expiry, t) == token # NoToken /\ t < expiry - ExpiryMargin

\* line 53
NewExpiry(t, expires_in) ==
  t + (IF expires_in # 0 THEN expires_in ELSE DefaultExpiresIn) * 1000

ExpressInvalidPhone == [code |-> 400, error |-> "Invalid phone number format"]
ExpressInvalidAmount == [code |-> 400, error |-> "Invalid amount"]
ExpressFailed(details) ==
  [code |-> 500, error |-> "STK push failed", details |-> details]
ExpressOk == [code |-> 200, ok |-> TRUE]
\* err.message of a failed order.save()
DbError == "db error"

\* lines 133-145: the fields of the payload that depend on the request and on
\* the configuration, and the bearer token of line 149
ExpressPush(l, token) ==
  [token |-> token,
   BusinessShortCode |-> IF env.short THEN "shortcode" ELSE "undefined",
   Amount |-> l.amount, PartyA |-> l.phone, PhoneNumber |-> l.phone]

\* lines 115-126: validation, up to the await of Order.create
ExpressReceive(phone, amount) ==
  /\ pc = "idle"
  /\ LET req == [phone |-> phone, amount |-> amount]
         rejected(res) ==
           /\ last' = [op |-> "x_stkpush", req |-> req, res |-> res]
           /\ pc' = pc
           /\ locals' = locals
     IN IF phone = NoPhone \/ amount = 0 THEN rejected(BadRequest)
        ELSE IF ~MatchesLocal(phone) THEN rejected(ExpressInvalidPhone)
        ELSE IF amount <= 0 THEN rejected(ExpressInvalidAmount)
        ELSE /\ last' = [op |-> "x_await_create", req |-> req, res |-> None]
             /\ pc' = "x_create"
             /\ locals' = [phone |-> phone, amount |-> amount, order |-> FALSE, now |-> 0]
  /\ UNCHANGED <<ORDERS, env, gw, issued, cachedToken, tokenExpiry, now, clientVars, cartVars>>

\* lines 124-128, 39-49: Order.create settles (a failure is ignored), then
\* getAccessToken returns the cached token, and the push of lines 130-152 is
\* sent, or it sends its token request
ExpressOrderCreated(ok) ==
  /\ pc = "x_create"
  /\ IF CacheFresh(cachedToken, tokenExpiry, now)
     THEN /\ pc' = "x_post"
          /\ locals' = [locals EXCEPT !.order = ok]
          /\ last' = [op |-> "x_await_post", req |-> ExpressPush(locals, cachedToken),
                      res |-> None]
     ELSE /\ pc' = "x_token"
          /\ locals' = [locals EXCEPT !.order = ok, !.now = now]
          /\ last' = [op |-> "x_await_token", req |-> None, res |-> None]
  /\ UNCHANGED <<ORDERS, env, gw, issued, cachedToken, tokenExpiry, now, clientVars, cartVars>>

\* lines 49-55, 128-152: the token request settles; the gateway issues no token
\* to a server without credentials. On success the token is cached and the
\* push is sent.
ExpressTokenReply(ok, expires_in) ==
  /\ pc = "x_token"
  /\ ok => env.keys /\ cachedToken < MaxTokens
  /\ IF ok
     THEN /\ cachedToken' = cachedToken + 1
          /\ tokenExpiry' = NewExpiry(locals.now, expires_in)
          /\ pc' = "x_post"
          /\ locals' = locals
          /\ last' = [op |-> "x_await_post", req |-> ExpressPush(locals, cachedToken'),
                      res |-> None]
     ELSE /\ UNCHANGED <<cachedToken, tokenExpiry>>
          /\ pc' = "idle"
          /\ locals' = None
          /\ last' = [op |-> "x_stkpush", req |-> None, res |-> ExpressFailed(GatewayError)]
  /\ UNCHANGED <<ORDERS, env, gw, issued, now, clientVars, cartVars>>

\* lines 147-167: the push request settles; the gateway accepts no push from a
\* server without a short code. With an order document, order.save is awaited.
ExpressPostReply(ok) ==
  /\ pc = "x_post"
  /\ ok => env.short
  /\ IF ~ok
     THEN /\ pc' = "idle"
          /\ locals' = None
          /\ last' = [op |-> "x_stkpush", req |-> None, res |-> ExpressFailed(GatewayError)]
     ELSE IF locals.order
     THEN /\ pc' = "x_save"
          /\ locals' = locals
          /\ last' = [op |-> "x_await_save", req |-> None, res |-> None]
     ELSE /\ pc' = "idle"
          /\ locals' = None
          /\ last' = [op |-> "x_stkpush", req |-> None, res |-> ExpressOk]
  /\ UNCHANGED <<ORDERS, env, gw, issued, cachedToken, tokenExpiry, now, clientVars, cartVars>>

\* lines 157-167: order.save settles
ExpressOrderSaved(ok) ==
  /\ pc = "x_save"
  /\ pc' = "idle"
  /\ locals' = None
  /\ last' = [op |-> "x_stkpush", req |-> None,
              res |-> IF ok THEN ExpressOk ELSE ExpressFailed(DbError)]
  /\ UNCHANGED <<ORDERS, env, gw, issued, cachedToken, tokenExpiry, now, clientVars, cartVars>>

\* Date.now() moves on.
Advance ==
  /\ now + ClockStep <= MaxNow
  /\ now' = now + ClockStep
  /\ last' = [op |-> "advance", req |-> None, res |-> None]
  /\ UNCHANGED <<ORDERS, env, pc, gw, issued, cachedToken, tokenExpiry, locals, clientVars, cartVars>>

NextExpress ==
  \/ \E phone \in Phones, amount \in Amounts : ExpressReceive(phone, amount)
  \/ \E ok \in BOOLEAN : ExpressOrderCreated(ok)
  \/ \E ok \in BOOLEAN, expires_in \in ExpiresIn : ExpressTokenReply(ok, expires_in)
  \/ \E ok \in BOOLEAN : ExpressPostReply(ok)
  \/ \E ok \in BOOLEAN : ExpressOrderSaved(ok)
  \/ Advance

----------------------------------------------------------------------------
(* The number submitted to the gateway *)

\* Longest phone of the exhaustive part of PhoneStrings.
MaxPhoneLen == 3

InternationalPhone == <<"2", "5", "4">> \o Tail(LocalPhone)
PlusPhone == <<"+">> \o InternationalPhone
SpacedPhone == <<"0", "7", "1", "2", " ">> \o SubSeq(LocalPhone, 5, 10)
PhoneChars == {"0", "2", "7", "+", " "}
PhoneStrings ==
  SeqsUpTo(PhoneChars, MaxPhoneLen)
    \cup {LocalPhone, InternationalPhone, PlusPhone, SpacedPhone}

\* server.js line 55: String(phone).replace(/\s+/g, '')
RECURSIVE StripSpaces(_)
StripSpaces(s) ==
  IF s = <<>> THEN <<>>
  ELSE IF Head(s) = " " THEN StripSpaces(Tail(s))
  ELSE <<Head(s)>> \o StripSpaces(Tail(s))

StartsWith(s, c) == s # <<>> /\ Head(s) = c

\* server.js lines 55-57
Msisdn(phone) ==
  LET spaceless == StripSpaces(phone)
      unsigned == IF StartsWith(spaceless, "+") THEN Tail(spaceless) ELSE spaceless
  IN IF StartsWith(unsigned, "0") THEN <<"2", "5", "4">> \o Tail(unsigned) ELSE unsigned

\* server.js lines 48-57 and 63-75: whether the handler goes on to submit a
\* push for this phone (the amount and the configuration being in order), and
\* the number it puts in the payload
StkSubmits(phone) ==
  /\ last.op = "init"
  /\ last' = [op |-> "msisdn", req |-> [phone |-> phone],
              res |-> [accepted |-> phone # NoPhone,
                       PartyA |-> Msisdn(phone), PhoneNumber |-> Msisdn(phone)]]
  /\ UNCHANGED <<ORDERS, env, pc, gw, issued, expressVars, clientVars, cartVars>>

\* (nodejs,express)server.js lines 118-121 and 133-142: the same for the
\* Express handler
ExpressSubmits(phone) ==
  /\ last.op = "init"
  /\ last' = [op |-> "x_msisdn", req |-> [phone |-> phone],
              res |-> [accepted |-> phone # NoPhone /\ MatchesLocal(phone),
                       PartyA |-> phone, PhoneNumber |-> phone]]
  /\ UNCHANGED <<ORDERS, env, pc, gw, issued, expressVars, clientVars, cartVars>>

NextPhone ==
  \/ \E phone \in PhoneStrings : StkSubmits(phone)
  \/ \E phone \in PhoneStrings : ExpressSubmits(phone)

----------------------------------------------------------------------------
(* The payment page: the click handler of #mpesa-pay and pollForPayment *)

\* line 208
PollMax == 8
\* line 219: the attempt at which the demo loop reports success
DemoAttempts == 3

\* What #mpesa-status shows.
EnterPhone == "Enter a valid Kenya phone number (07...)"
EnterAmount == "Enter an amount"
Requesting == "Requesting M-Pesa prompt"
RequestFailed == "Payment request failed"
NetworkError == "Network error. Try again."
PromptSent == "M-Pesa prompt sent"
Confirmed == "Payment confirmed"
NotConfirmed == "Payment not confirmed yet"

\* A click handler is suspended at its fetch.
Fetching == fetches > 0

\* Mutant of PayClick: the button is not disabled before the fetch.
PayClickLeavesEnabled(phone, amount) ==
  /\ ~payDisabled
  /\ IF ~KenyanPhone(phone)
     THEN statusHtml' = EnterPhone /\ UNCHANGED <<payDisabled, fetches>>
     ELSE IF amount <= 0
     THEN statusHtml' = EnterAmount /\ UNCHANGED <<payDisabled, fetches>>
     ELSE statusHtml' = Requesting /\ payDisabled' = payDisabled /\ fetches' = fetches + 1
  /\ last' = [op |-> "click", req |-> [phone |-> phone, amount |-> amount], res |-> None]
  /\ UNCHANGED <<ORDERS, env, pc, gw, issued, expressVars, cartVars,
                 attempts, interval, checkoutRequestID, timers>>

\* lines 151-176: a click on the enabled button, up to the fetch
PayClick(phone, amount) ==
  /\ ~payDisabled
  /\ IF ~KenyanPhone(phone)
     THEN statusHtml' = EnterPhone /\ UNCHANGED <<payDisabled, fetches>>
     ELSE IF amount <= 0
     THEN statusHtml' = EnterAmount /\ UNCHANGED <<payDisabled, fetches>>
     ELSE statusHtml' = Requesting /\ payDisabled' = TRUE /\ fetches' = fetches + 1
  /\ last' = [op |-> "click", req |-> [phone |-> phone, amount |-> amount], res |-> None]
  /\ UNCHANGED <<ORDERS, env, pc, gw, issued, expressVars, cartVars,
                 attempts, interval, checkoutRequestID, timers>>

\* lines 177-198 and 203-209: the fetch settles with a network failure, an
\* error response, or the success response of an initiation that has saved
\* its PENDING record (server.js lines 81-87); on success pollForPayment
\* starts the timer
FetchSettles(r) ==
  /\ Fetching
  /\ r \in {"network", "error", "noid"} \cup (Ids \ issued)
  /\ last' = [op |-> "fetched", req |-> None, res |-> [result |-> r]]
  /\ fetches' = fetches - 1
  /\ IF r \in {"network", "error"}
     THEN /\ statusHtml' = IF r = "network" THEN NetworkError ELSE RequestFailed
          /\ payDisabled' = FALSE
          /\ UNCHANGED <<ORDERS, issued, attempts, interval, checkoutRequestID, timers>>
     ELSE LET id == IF r = "noid" THEN NoId ELSE r IN
          /\ ORDERS' = StkWrite(ORDERS, id)
          /\ issued' = IF id = NoId THEN issued ELSE issued \cup {id}
          /\ statusHtml' = PromptSent
          /\ checkoutRequestID' = id
          /\ attempts' = 0
          /\ interval' = "set"
          /\ timers' = timers + 1
          /\ payDisabled' = payDisabled
  /\ UNCHANGED <<env, pc, gw, expressVars, cartVars>>

\* lines 209-229: the timer fires
\* Mutant of IntervalTick: the success branch leaves the button disabled.
IntervalTickKeepsDisabled ==
  /\ interval = "set"
  /\ attempts' = attempts + 1
  /\ IF attempts' = DemoAttempts
     THEN /\ interval' = "none"
          /\ timers' = timers - 1
          /\ statusHtml' = Confirmed
          /\ payDisabled' = payDisabled
     ELSE IF attempts' >= PollMax
     THEN /\ interval' = "none"
          /\ timers' = timers - 1
          /\ statusHtml' = NotConfirmed
          /\ payDisabled' = FALSE
     ELSE UNCHANGED <<interval, timers, statusHtml, payDisabled>>
  /\ last' = [op |-> "tick", req |-> None, res |-> None]
  /\ UNCHANGED <<ORDERS, env, pc, gw, issued, expressVars, cartVars,
                 checkoutRequestID, fetches>>

IntervalTick ==
  /\ interval = "set"
  /\ attempts' = attempts + 1
  /\ IF attempts' = DemoAttempts
     THEN /\ interval' = "none"
          /\ timers' = timers - 1
          /\ statusHtml' = Confirmed
          /\ payDisabled' = FALSE
     ELSE IF attempts' >= PollMax
     THEN /\ interval' = "none"
          /\ timers' = timers - 1
          /\ statusHtml' = NotConfirmed
          /\ payDisabled' = FALSE
     ELSE UNCHANGED <<interval, timers, statusHtml, payDisabled>>
  /\ last' = [op |-> "tick", req |-> None, res |-> None]
  /\ UNCHANGED <<ORDERS, env, pc, gw, issued, expressVars, cartVars,
                 checkoutRequestID, fetches>>

NextClient ==
  \/ \E phone \in Phones, amount \in Amounts : PayClick(phone, amount)
  \/ \E r \in {"network", "error", "noid"} \cup Ids : FetchSettles(r)
  \/ IntervalTick
  \/ \E body \in BodiesUpTo(MaxItemsAsync) : Callback(body)

----------------------------------------------------------------------------
(* The menu page (src/unnamed/part_000): the cart, its badges and sidebar *)

\* Largest quantity of a cart entry.
MaxQty == 5

\* The ids a call may name: the menu's, and one that has no card.
CartIds == MenuIds \cup {"legacy"}
\* A cart entry; name, price and img are copied from CARD_NODES when the entry
\* is made and never change.
Entry(id, q) == [id |-> id, quantity |-> q]

\* line 86: JSON.stringify(cart); line 85: JSON.parse of the stored text, or of
\* '[]' when nothing is stored
SaveCart(cart) == [kind |-> "json", value |-> cart]
ReadCart(item) == IF item = NoItem THEN <<>> ELSE item.value

\* Array.prototype.findIndex on the id, from 1, -1 when there is none
FindIndex(cart, id) ==
  IF \E k \in 1..Len(cart) : cart[k].id = id
  THEN CHOOSE k \in 1..Len(cart) :
         cart[k].id = id /\ \A j \in 1..(k - 1) : cart[j].id # id
  ELSE -1
\* cart.splice(idx, 1)
Splice(cart, idx) == SubSeq(cart, 1, idx - 1) \o SubSeq(cart, idx + 1, Len(cart))

\* Mutant of SetQuantityCart: a positive quantity is always pushed as a new
\* entry.
SetQuantityCartAlwaysPushes(cart, id, newQty) ==
  LET idx == FindIndex(cart, id) IN
  IF newQty <= 0
  THEN [thrown |-> FALSE, cart |-> IF idx # -1 THEN Splice(cart, idx) ELSE cart]
  ELSE IF id \notin MenuIds
       THEN [thrown |-> TRUE, cart |-> cart]
       ELSE [thrown |-> FALSE, cart |-> Append(cart, Entry(id, newQty))]

\* lines 114-126: the cart setQuantity saves; reading meta.title of an id that
\* has no card throws
SetQuantityCart(cart, id, newQty) ==
  LET idx == FindIndex(cart, id) IN
  IF newQty <= 0
  THEN [thrown |-> FALSE, cart |-> IF idx # -1 THEN Splice(cart, idx) ELSE cart]
  ELSE IF idx = -1
       THEN IF id \notin MenuIds
            THEN [thrown |-> TRUE, cart |-> cart]
            ELSE [thrown |-> FALSE, cart |-> Append(cart, Entry(id, newQty))]
       ELSE [thrown |-> FALSE, cart |-> [cart EXCEPT ![idx].quantity = newQty]]

\* textContent = n: the decimal digits of a number
DigitChars == <<"0", "1", "2", "3", "4", "5", "6", "7", "8", "9">>
RECURSIVE ToText(_)
ToText(n) ==
  IF n < 0 THEN <<"-">> \o ToText(-n)
  ELSE IF n < 10 THEN <<DigitChars[n + 1]>>
  ELSE ToText(n \div 10) \o <<DigitChars[(n % 10) + 1]>>

\* Mutant of TotalCount: the entries are counted, not their quantities.
TotalCountEntries(cart) == Len(cart)

\* line 190: cart.reduce((s, i) => s + i.quantity, 0)
RECURSIVE TotalCount(_)
TotalCount(cart) ==
  IF cart = <<>> THEN 0 ELSE Head(cart).quantity + TotalCount(Tail(cart))

\* lines 196-197: the quantity of the first entry with the id, or 0
BadgeQty(cart, id) ==
  LET idx == FindIndex(cart, id) IN IF idx = -1 THEN 0 ELSE cart[idx].quantity

\* lines 143-185: what renderSidebarItems leaves in #cart-items
Markup == [kind |-> "markup", rows |-> <<>>]
RenderSidebarItems(cart, collapsed) ==
  IF cart = <<>> THEN [kind |-> "empty", rows |-> <<>>]
  ELSE IF collapsed THEN [kind |-> "collapsed", rows |-> <<>>]
  ELSE [kind |-> "rows", rows |-> cart]

\* lines 188-206
RefreshUI(cart) ==
  /\ navCount' = ToText(TotalCount(cart))
  /\ badges' = [m \in MenuIds |-> ToText(BadgeQty(cart, m))]
  /\ cartItemsWrap' = IF sidebarOpen THEN RenderSidebarItems(cart, collapseState)
                      ELSE cartItemsWrap
  /\ UNCHANGED <<sidebarOpen, collapseState>>

\* lines 113-129, called as op with the arguments req
SetQuantityAs(op, req, id, newQty) ==
  LET r == SetQuantityCart(ReadCart(storage), id, newQty) IN
  /\ IF r.thrown
     THEN UNCHANGED cartVars
     ELSE storage' = SaveCart(r.cart) /\ RefreshUI(r.cart)
  /\ last' = [op |-> op, req |-> req, res |-> [thrown |-> r.thrown]]
  /\ UNCHANGED <<ORDERS, env, pc, gw, issued, expressVars, clientVars>>

\* lines 113-129; the Remove button calls it with 0 (line 243)
SetQuantity(id, newQty) ==
  SetQuantityAs("setQuantity", [id |-> id, newQty |-> newQty], id, newQty)

\* lines 131-136; the Add, + and - buttons call it with 1 or -1 (lines 213-241)
ChangeQuantity(id, delta) ==
  LET cart == ReadCart(storage)
      idx == FindIndex(cart, id)
      current == IF idx # -1 THEN cart[idx].quantity ELSE 0
  IN /\ current + delta <= MaxQty
     /\ SetQuantityAs("changeQuantity", [id |-> id, delta |-> delta], id, current + delta)

\* lines 249-257: a click on #open-cart
OpenCart ==
  /\ sidebarOpen' = ~sidebarOpen
  /\ collapseState' = FALSE
  /\ cartItemsWrap' = IF ~sidebarOpen
                      THEN RenderSidebarItems(ReadCart(storage), FALSE)
                      ELSE cartItemsWrap
  /\ last' = [op |-> "open-cart", req |-> None, res |-> None]
  /\ UNCHANGED <<storage, navCount, badges>>
  /\ UNCHANGED <<ORDERS, env, pc, gw, issued, expressVars, clientVars>>

\* lines 262-266: a click on #collapse-list
CollapseList ==
  /\ collapseState' = ~collapseState
  /\ cartItemsWrap' = RenderSidebarItems(ReadCart(storage), collapseState')
  /\ last' = [op |-> "collapse-list", req |-> None, res |-> None]
  /\ UNCHANGED <<storage, navCount, badges, sidebarOpen>>
  /\ UNCHANGED <<ORDERS, env, pc, gw, issued, expressVars, clientVars>>

\* The carts a page load may find stored: entries of menu items, no id twice,
\* quantities from 1.
RECURSIVE CartsOver(_)
CartsOver(ids) ==
  {<<>>} \cup
  UNION { { <<Entry(i, q)>> \o c : q \in 1..MaxQty, c \in CartsOver(ids \ {i}) } :
          i \in ids }
StoredItems == {NoItem} \cup {SaveCart(c) : c \in CartsOver(MenuIds)}

NextCart ==
  \/ \E id \in CartIds, newQty \in -1..MaxQty : SetQuantity(id, newQty)
  \/ \E id \in CartIds, delta \in {-1, 1} : ChangeQuantity(id, delta)
  \/ OpenCart
  \/ CollapseList

----------------------------------------------------------------------------
(* Specification *)

\* (nodejs,express)server.js lines 36-37, and no handler running
ExpressInit ==
  /\ cachedToken = NoToken
  /\ tokenExpiry = 0
  /\ now = 0
  /\ locals = None

\* The page as loaded: no poller, an empty status line, the button enabled.
ClientInit ==
  /\ attempts = 0
  /\ interval = "none"
  /\ statusHtml = ""
  /\ payDisabled = FALSE
  /\ checkoutRequestID = NoId
  /\ fetches = 0
  /\ timers = 0

\* The menu page loaded with nothing under qikao_cart: init() (lines 279-293)
\* has written 0 to every badge and to #nav-count.
CartInit ==
  /\ storage = NoItem
  /\ navCount = <<"0">>
  /\ badges = [m \in MenuIds |-> <<"0">>]
  /\ sidebarOpen = FALSE
  /\ collapseState = FALSE
  /\ cartItemsWrap = Markup

Init ==
  /\ ORDERS = [x \in {} |-> None]
  /\ env \in [keys : BOOLEAN, short : BOOLEAN]
  /\ pc = "idle"
  /\ gw = "none"
  /\ issued = {}
  /\ last = [op |-> "init", req |-> None, res |-> None]
  /\ ExpressInit /\ ClientInit /\ CartInit

Next ==
  \/ \E body \in BodiesUpTo(MaxItemsAsync) : Callback(body)
  \/ \E id \in Ids \cup {NoId} : Status(id)
  \/ \E phone \in Phones, amount \in Amounts : StkReceive(phone, amount)
  \/ \E ok \in BOOLEAN : StkTokenReply(ok)
  \/ \E r \in {"error", "noid"} \cup Ids : GatewayReply(r)
  \/ StkResume

Spec == Init /\ [][Next]_vars

\* One callback delivery, and the status queries after it, on a store in which
\* any of the ids has been recorded by an initiation.
InitDelivery ==
  /\ \E S \in SUBSET Ids :
       ORDERS = [x \in S |-> PendingRecord(ResponseData(x))]
  /\ env = [keys |-> TRUE, short |-> TRUE]
  /\ pc = "idle"
  /\ gw = "none"
  /\ issued = DOMAIN ORDERS
  /\ last = [op |-> "init", req |-> None, res |-> None]
  /\ ExpressInit /\ ClientInit /\ CartInit

Deliver == last.op = "init" /\ \E body \in BodiesUpTo(MaxItems) : Callback(body)
Query == last.op # "init" /\ \E id \in Ids \cup {NoId} : Status(id)

NextDelivery == Deliver \/ Query

SpecDelivery == InitDelivery /\ [][NextDelivery]_vars

\* The Express server from its start.
SpecExpress == Init /\ [][NextExpress]_vars

\* One phone, through the number-building lines of either stkpush handler.
SpecPhone == Init /\ [][NextPhone]_vars

\* The page, the initiations it starts on a configured server, and the
\* callbacks of the gateway.
InitClient == Init /\ env = [keys |-> TRUE, short |-> TRUE]
SpecClient == InitClient /\ [][NextClient]_vars

\* The same under the browser's scheduling: a running interval timer keeps
\* firing, and a fetch settles (it resolves, or rejects with a network error).
SpecClientFair ==
  /\ SpecClient
  /\ WF_vars(IntervalTick)
  /\ WF_vars(\E r \in {"network", "error", "noid"} \cup Ids : FetchSettles(r))

\* The menu page after init() (lines 279-293) has run on a stored cart.
InitCart ==
  /\ ORDERS = [x \in {} |-> None]
  /\ env = [keys |-> TRUE, short |-> TRUE]
  /\ pc = "idle"
  /\ gw = "none"
  /\ issued = {}
  /\ last = [op |-> "init", req |-> None, res |-> None]
  /\ ExpressInit /\ ClientInit
  /\ storage \in StoredItems
  /\ navCount = ToText(TotalCount(ReadCart(storage)))
  /\ badges = [m \in MenuIds |-> ToText(BadgeQty(ReadCart(storage), m))]
  /\ sidebarOpen = FALSE
  /\ collapseState = FALSE
  /\ cartItemsWrap = Markup

SpecCart == InitCart /\ [][NextCart]_vars

----------------------------------------------------------------------------
(* Claims *)

IsTerminal(orders, c) == c \in DOMAIN orders /\ orders[c].status \in Terminal
\* The step just taken completed a request to this endpoint.
Answered(op) == last'.op = op

\* C1: once the stored status of an id is SUCCESS or FAILED, a later callback
\* delivery for any payload leaves the stored status and detail of that id as
\* they were.
C1_TerminalNeverChanges ==
  [][\A c \in Ids :
       IsTerminal(ORDERS, c) /\ Answered("callback")
         => c \in DOMAIN ORDERS' /\ ORDERS'[c] = ORDERS[c]]_vars

\* C2: in every interleaving of the steps of an initiation with callback
\* deliveries, no step takes the stored status of an id from SUCCESS or FAILED
\* to PENDING.
C2_NoRegressionToPending ==
  [][\A c \in Ids :
       IsTerminal(ORDERS, c)
         => c \in DOMAIN ORDERS' /\ ORDERS'[c].status # "PENDING"]_vars

\* C2 witness: the callback for the id the gateway has just assigned has been
\* stored while the initiation handler is still suspended at its push request.
C2_Witness ==
  /\ pc = "replied" /\ gw \in Ids
  /\ last.op = "callback" /\ last.req.kind = "stk"
  /\ last.req.CheckoutRequestID = gw
  /\ IsTerminal(ORDERS, gw)

\* C3: an initiation that is answered with success carries a correlation id
\* under which a PENDING intent is stored, and changes no other id; one that
\* is answered with an error leaves the store as it was.
C3_SuccessIffPendingStored ==
  [][Answered("stkpush") =>
       IF last'.res.code = 200
       THEN /\ "CheckoutRequestID" \in DOMAIN last'.res.data
            /\ LET c == last'.res.data.CheckoutRequestID IN
               /\ c \in DOMAIN ORDERS'
               /\ ORDERS'[c].status = "PENDING"
               /\ \A d \in Ids \ {c} :
                    /\ d \in DOMAIN ORDERS' <=> d \in DOMAIN ORDERS
                    /\ d \in DOMAIN ORDERS => ORDERS'[d] = ORDERS[d]
       ELSE ORDERS' = ORDERS]_vars

\* The envelope carries an id and every element of its Item list is an object.
Processable(stk) ==
  /\ stk.kind = "stk"
  /\ stk.CheckoutRequestID # NoId
  /\ \A k \in 1..Len(stk.Item) : stk.Item[k].kind = "obj"
\* An element with a name and a value.
IsPair(i) == i.kind = "obj" /\ i.Name # "" /\ i.hasValue
\* What a status query for c returns when it is issued in this state.
QueryReturnsStored(c) ==
  LET q == StatusHandler(ORDERS, c) IN
  /\ q.code = 200
  /\ q.status = ORDERS[c].status
  /\ q.hasDetail /\ q.detail = ORDERS[c].detail
FailedAsReported(stk) ==
  LET rec == ORDERS[stk.CheckoutRequestID] IN
  /\ rec.status = "FAILED"
  /\ rec.detail.ResultCode = stk.ResultCode
  /\ rec.detail.ResultDesc = stk.ResultDesc

C5_AlwaysAcknowledged ==
  last.op = "callback" => last.res.code = 200 /\ last.res.ResultCode = 0

\* C6: a callback with no envelope, or with no correlation id in it, is
\* answered 200 and leaves the store as it was.
C6_NoEnvelopeNoEffect ==
  [][Answered("callback")
       /\ (last'.req.kind = "null" \/ last'.req.CheckoutRequestID = NoId)
     => ORDERS' = ORDERS /\ last'.res = Ack]_vars

\* C6 witness: such a callback has been answered while the store holds an intent.
C6_Witness ==
  /\ last.op = "callback"
  /\ last.req.kind = "stk" /\ last.req.CheckoutRequestID = NoId
  /\ DOMAIN ORDERS # {}

C8_SameOutcomeIdempotent ==
  [][/\ last.op = "callback" /\ Processable(last.req)
     /\ Answered("callback") /\ Processable(last'.req)
     /\ last'.req.CheckoutRequestID = last.req.CheckoutRequestID
     /\ (last'.req.ResultCode = 0) = (last.req.ResultCode = 0)
     => ORDERS' = ORDERS]_vars

\* C9: a status query for an id with no stored intent is answered 200 with
\* status PENDING.
C9_UnknownIdIsPending ==
  last.op = "status" /\ last.req.checkoutId # NoId
    /\ last.req.checkoutId \notin DOMAIN ORDERS
  => last.res.code = 200 /\ last.res.status = "PENDING"

\* C9 witness: such a query has been answered while another id is stored.
C9_Witness ==
  /\ last.op = "status" /\ last.req.checkoutId \in Ids
  /\ last.req.checkoutId \notin DOMAIN ORDERS
  /\ DOMAIN ORDERS # {}

\* C10 (as stated): a stored PENDING intent has no detail, and a status query
\* that returns PENDING returns no detail.
C10_PendingHasNoDetail ==
  /\ \A c \in DOMAIN ORDERS :
       ORDERS[c].status = "PENDING" => DOMAIN ORDERS[c].detail = {}
  /\ last.op = "status" /\ last.res.code = 200 /\ last.res.status = "PENDING"
       => ~last.res.hasDetail

CallbackKeys == {"ResultCode", "ResultDesc"} \cup {i.Name : i \in Items}

\* C10 (amended): the detail of a stored PENDING intent is the gateway's answer
\* to the initiation, which carries the intent's id and nothing of a callback;
\* a query that returns PENDING returns no detail exactly when the id is not
\* stored, and that answer otherwise; every terminal intent has a detail with
\* the callback's result description.
C10_PendingDetailIsInitiationAnswer ==
  /\ \A c \in DOMAIN ORDERS :
       IF ORDERS[c].status = "PENDING"
       THEN /\ "CheckoutRequestID" \in DOMAIN ORDERS[c].detail
            /\ ORDERS[c].detail.CheckoutRequestID = c
            /\ DOMAIN ORDERS[c].detail \cap CallbackKeys = {}
       ELSE "ResultDesc" \in DOMAIN ORDERS[c].detail
  /\ last.op = "status" /\ last.res.code = 200 /\ last.res.status = "PENDING"
       => /\ last.res.hasDetail <=> last.req.checkoutId \in DOMAIN ORDERS
          /\ last.res.hasDetail =>
               last.res.detail = ORDERS[last.req.checkoutId].detail

\* C10 witness: a query has returned PENDING together with a detail.
C10_Witness ==
  /\ last.op = "status" /\ last.res.code = 200
  /\ last.res.status = "PENDING" /\ last.res.hasDetail

\* C11: an initiation whose token request or push request the gateway fails is
\* answered with the error "STK push failed", and neither that answer nor any
\* earlier step of the initiation changes the store.
C11_GatewayFailureLeavesStore ==
  [][/\ (pc' = "idle" /\ (pc = "token" \/ (pc = "replied" /\ gw = "error")))
        => (/\ Answered("stkpush")
            /\ last'.res.code = 500 /\ last'.res.error = "STK push failed"
            /\ ORDERS' = ORDERS)
     /\ (last'.op \in {"stk_await_token", "stk_await_post", "gateway"})
        => ORDERS' = ORDERS]_vars

\* C11 witness: a push the gateway rejected has been answered while the store
\* holds an intent.
C11_Witness ==
  /\ last.op = "stkpush" /\ last.res.code = 500
  /\ last.res.error = "STK push failed"
  /\ last.res.detail = GatewayError
  /\ DOMAIN ORDERS # {}

\* The step just taken is the arrival of an initiation request.
Received == pc = "idle" /\ last'.op \in {"stkpush", "stk_await_token"}

\* C12: an initiation whose phone is not a Kenyan mobile number, or whose
\* amount is not positive, is answered 400 without a request to the gateway
\* and without a change to the store.
C12_InvalidRequestRejected ==
  [][Received /\ (~KenyanPhone(last'.req.phone) \/ last'.req.amount <= 0)
     => /\ last'.res # None /\ last'.res.code = 400
        /\ pc' = "idle"
        /\ ORDERS' = ORDERS]_vars

\* C12 witness: an initiation with a phone of three digits has been received.
C12_Witness ==
  /\ last.op \in {"stkpush", "stk_await_token"}
  /\ last.req # None /\ last.req.phone = ShortPhone

\* C16: a status query leaves the store as it was, and one without an id is
\* answered 400.
C16_QueryReadsOnly ==
  [][Answered("status")
     => /\ ORDERS' = ORDERS
        /\ last'.req.checkoutId = NoId => last'.res.code = 400]_vars

\* C16 witness: queries for a stored id, for an unknown id and without an id
\* can each be the last step; here one without an id on a store with an intent.
C16_Witness ==
  /\ last.op = "status" /\ last.req.checkoutId = NoId
  /\ last.res.code = 400
  /\ DOMAIN ORDERS # {}

\* C17: no step removes an id from the store, and a step changes or adds the
\* record of at most one id.
C17_StoredIdsOnlyGrow ==
  [][/\ DOMAIN ORDERS \subseteq DOMAIN ORDERS'
     /\ Cardinality({c \in DOMAIN ORDERS' :
                       c \notin DOMAIN ORDERS \/ ORDERS'[c] # ORDERS[c]}) <= 1]_vars

\* C17 witness: a write has been made while another id was stored.
C17_Witness ==
  /\ last.op \in {"callback", "stkpush"}
  /\ Cardinality(DOMAIN ORDERS) = 2

\* The record a callback with this envelope writes.
RecordOf(stk) ==
  IF IsSuccessCode(stk.ResultCode)
  THEN SuccessRecord(stk, IF stk.hasItems THEN ForEachItem(stk.Item, EmptyObj).detail
                          ELSE EmptyObj)
  ELSE FailedRecord(stk)

\* C18: every record in the store is changed as a whole, to the PENDING record
\* of one initiation or to the terminal record of one callback, and a status
\* query for a stored id returns the status and the detail of that one record.
C18_StatusAndDetailFromOneWrite ==
  [][/\ \A c \in DOMAIN ORDERS' :
          c \notin DOMAIN ORDERS \/ ORDERS'[c] # ORDERS[c]
          => \/ Answered("stkpush") /\ ORDERS'[c] = PendingRecord(ResponseData(c))
             \/ /\ Answered("callback") /\ last'.req.CheckoutRequestID = c
                /\ ORDERS'[c] = RecordOf(last'.req)
     /\ Answered("status") /\ last'.req.checkoutId \in DOMAIN ORDERS
          => /\ last'.res.code = 200 /\ last'.res.hasDetail
             /\ [status |-> last'.res.status, detail |-> last'.res.detail]
                  = ORDERS[last'.req.checkoutId]]_vars

\* C18 witness: a query has returned the record of a callback that replaced
\* the PENDING record of an initiation.
C18_Witness ==
  /\ last.op = "status" /\ last.req.checkoutId \in issued
  /\ last.res.code = 200 /\ last.res.status = "FAILED" /\ last.res.hasDetail

\* The response is an error that names missing configuration.
NamesConfiguration(res) ==
  /\ res # None /\ res.code >= 400
  /\ \/ res.error = ConfigError.error
     \/ "detail" \in DOMAIN res /\ res.detail = MissingKeys
     \/ "details" \in DOMAIN res /\ res.details = MissingKeys
\* The step just taken is the arrival of an initiation at the Express server.
ExpressReceived == pc = "idle" /\ last'.op \in {"x_stkpush", "x_await_create"}

\* C13: while credentials or the short code, passkey and callback URL are
\* missing, every initiation with a well-formed phone and a positive amount is
\* answered at once with an error that names the missing configuration, no
\* token or push request is sent, and the store is not changed.
C13_MissingConfigurationNamed ==
  [][~(env.keys /\ env.short)
     => /\ ExpressReceived /\ MatchesLocal(last'.req.phone) /\ last'.req.amount > 0
           => NamesConfiguration(last'.res) /\ pc' = "idle"
        /\ pc' \notin {"x_token", "x_post"}
        /\ ORDERS' = ORDERS]_vars

\* C13 witness: a well-formed initiation has arrived at a server with no
\* short code.
C13_Witness ==
  /\ ~env.short
  /\ last.op \in {"x_stkpush", "x_await_create"}
  /\ last.req # None /\ MatchesLocal(last.req.phone) /\ last.req.amount > 0

C19_SubmittedNumberInternational ==
  last.op \in {"msisdn", "x_msisdn"} /\ last.res.accepted
  => /\ Len(last.res.PartyA) >= 3
     /\ SubSeq(last.res.PartyA, 1, 3) = <<"2", "5", "4">>
     /\ last.res.PhoneNumber = last.res.PartyA

\* C19 witness: the Express handler has accepted 0712345678.
C19_Witness ==
  /\ last.op = "x_msisdn" /\ last.res.accepted
  /\ last.req.phone = LocalPhone

\* C14: the poller stops showing a confirmation only when the server holds a
\* terminal status for the poller's id, and otherwise stops only at its
\* maximum number of attempts, showing that the payment is not confirmed.
C14_PollerStopsOnTerminalOrMax ==
  [][interval = "set" /\ interval' = "none"
     => IF statusHtml' = Confirmed
        THEN IsTerminal(ORDERS, checkoutRequestID)
        ELSE attempts' = PollMax /\ statusHtml' = NotConfirmed]_vars

\* C14 witness: the poller has stopped while the server holds no terminal
\* status for its id.
C14_Witness ==
  /\ last.op = "tick" /\ interval = "none"
  /\ checkoutRequestID \in Ids
  /\ ~IsTerminal(ORDERS, checkoutRequestID)

\* C15: when the page comes to show that the payment is confirmed, the server
\* holds the status SUCCESS for the id the poller was started with.
C15_ConfirmedOnlyAfterSuccess ==
  [][Answered("tick") /\ statusHtml' = Confirmed
     => /\ checkoutRequestID \in DOMAIN ORDERS
        /\ ORDERS[checkoutRequestID].status = "SUCCESS"]_vars

\* C15 witness: the page shows the confirmation while the stored status of the
\* poller's id is FAILED.
C15_Witness ==
  /\ statusHtml = Confirmed
  /\ checkoutRequestID \in DOMAIN ORDERS
  /\ ORDERS[checkoutRequestID].status = "FAILED"

\* C21: whenever the poller is waiting for its next attempt, the page can take
\* a step that stops the timer without running an attempt and without
\* changing the server's store.
C21_PollerCancellable ==
  interval = "set"
  => ENABLED (/\ NextClient
              /\ interval' = "none" /\ timers' = 0
              /\ attempts' = attempts
              /\ ORDERS' = ORDERS)

\* C21 witness: the poller is between its first and its second attempt.
C21_Witness ==
  /\ last.op = "tick" /\ interval = "set" /\ attempts = 1

C23_OnePaymentInFlight ==
  /\ fetches + timers <= 1
  /\ fetches + timers = 1 => payDisabled
  /\ timers = 1 <=> interval = "set"

\* C23 witness: a second payment is waiting for its response after the poller
\* of the first has stopped.
C23_Witness ==
  /\ fetches = 1 /\ payDisabled
  /\ last.op = "click"
  /\ statusHtml = Requesting /\ attempts = DemoAttempts

\* The quantity a cart holds of an id: the sum over its entries with that id.
RECURSIVE QuantityOf(_, _)
QuantityOf(cart, id) ==
  IF cart = <<>> THEN 0
  ELSE (IF Head(cart).id = id THEN Head(cart).quantity ELSE 0)
       + QuantityOf(Tail(cart), id)
WellFormed(cart) ==
  /\ \A k \in 1..Len(cart) : cart[k].quantity >= 1
  /\ \A j, k \in 1..Len(cart) : cart[j].id = cart[k].id => j = k
CartCall == {"setQuantity", "changeQuantity"}
\* The quantity a call asks for: the one given, or the current one plus delta.
Requested(cart, op, req) ==
  IF op = "setQuantity" THEN req.newQty ELSE QuantityOf(cart, req.id) + req.delta

\* C24: from an empty or well-formed stored cart, the stored cart stays
\* well-formed under setQuantity and changeQuantity calls on menu item ids: no
\* id has two entries and every quantity is at least 1. Such a call leaves the
\* item with the quantity asked for when that is positive, removes its entry
\* when it is 0 or less (so decrementing an entry of quantity 1 removes it and
\* decrementing an absent id changes nothing), and touches no other entry.
C24_CartWellFormed ==
  /\ [](WellFormed(ReadCart(storage)))
  /\ [][last'.op \in CartCall /\ last'.req.id \in MenuIds
        => LET old == ReadCart(storage)
               new == ReadCart(storage')
               q == Requested(old, last'.op, last'.req)
           IN /\ \A i \in CartIds :
                   QuantityOf(new, i) =
                     IF i = last'.req.id THEN (IF q <= 0 THEN 0 ELSE q)
                     ELSE QuantityOf(old, i)
              /\ (q <= 0 /\ QuantityOf(old, last'.req.id) = 0) => new = old
              /\ (q <= 0) => \A k \in 1..Len(new) : new[k].id # last'.req.id
      ]_vars
C24_Witness ==
  /\ last.op = "changeQuantity" /\ last.req = [id |-> "fries", delta |-> -1]
  /\ ReadCart(storage) = <<Entry("burger", 2)>>
  /\ cartItemsWrap = RenderSidebarItems(<<Entry("burger", 2), Entry("fries", 1)>>, FALSE)

\* The number a text of decimal digits shows.
DigitValue(c) == CHOOSE d \in 0..9 : DigitChars[d + 1] = c
RECURSIVE NumberOf(_)
NumberOf(text) ==
  IF Len(text) = 1 THEN DigitValue(text[1])
  ELSE 10 * NumberOf(SubSeq(text, 1, Len(text) - 1)) + DigitValue(text[Len(text)])
RECURSIVE SumOfQuantities(_, _)
SumOfQuantities(cart, k) ==
  IF k = 0 THEN 0 ELSE SumOfQuantities(cart, k - 1) + cart[k].quantity

\* C25: after every completed cart operation the navbar count shows the sum of
\* the quantities of all entries of the stored cart, and the badge of every
\* menu card shows the quantity of that item in the cart, 0 when it is absent.
C25_DisplayAgreesWithCart ==
  (last.op \in CartCall /\ ~last.res.thrown)
  => LET cart == ReadCart(storage) IN
     /\ NumberOf(navCount) = SumOfQuantities(cart, Len(cart))
     /\ \A m \in MenuIds :
          NumberOf(badges[m]) =
            IF \E k \in 1..Len(cart) : cart[k].id = m
            THEN QuantityOf(cart, m) ELSE 0
C25_Witness ==
  /\ last.op = "setQuantity" /\ ~last.res.thrown
  /\ navCount = <<"1", "0">>
  /\ badges["burger"] = <<"5">> /\ badges["fries"] = <<"5">>
  /\ Len(ReadCart(storage)) = 2

====
